---- MODULE Spec2Model ----
(***************************************************************************)
(* Model of confluence-readme-sync: main.py (one sync run),                *)
(* src/image_processor.py (ImageProcessor) and                             *)
(* src/confluence_markdown_extension.py (the markdown passes).             *)
(*                                                                         *)
(* Text is a sequence of one-character strings, so that the regular        *)
(* expressions, str.find, str.replace and slicing of the source are        *)
(* computed character by character.  Offsets are 0-based as in Python.     *)
(***************************************************************************)
EXTENDS Integers, Sequences, FiniteSets, TLC

VARIABLES
    pc,                     \* position of main(): the step to run next
    error,                  \* the exception that aborted main(), or "none"
    environ,                \* os.environ: INPUT_* values, GITHUB_WORKSPACE, GITHUB_ACTION
    md_file,                \* content of the markdown file at vars["filepath"]
    remote_page,            \* the page held by the remote system
    sent,                   \* the commands given to client.send so far, in order
    steps,                  \* the steps of main() completed so far, in order
    vars,                   \* main.vars: the verified parameters
    page_body,              \* main.page_body
    md_text,                \* main.md_text
    uploaded_attachments,   \* ImageProcessor.uploaded_attachments (the UploadLedger)
    processed_md_text,      \* main.processed_md_text
    images_to_upload,       \* main.images_to_upload
    next_image,             \* position of the upload loop in images_to_upload
    converted_html,         \* main.converted_html
    text,                   \* CodeBlockPostprocessor.run: argument
    processed_text,         \* CodeBlockPostprocessor.run: result
    run_pc,                 \* CodeBlockPostprocessor.run: "call" or "returned"
    html_blocks,            \* the blocks the markdown converter emitted as text
    arg_lines,              \* Preprocessor.run: the lines of the latest call
    modified_lines,         \* Preprocessor.run: result of the latest call
    self_max_width,         \* ImagePreprocessor.max_width: <<>> for None, else <<text>>
    pre_calls               \* the arguments of the calls of Preprocessor.run so far

mainVars == <<pc, error, environ, md_file, remote_page, sent, steps, vars, page_body,
              md_text, uploaded_attachments, processed_md_text, images_to_upload,
              next_image, converted_html>>
preVars == <<arg_lines, modified_lines, self_max_width, pre_calls>>
runVars == <<text, processed_text, run_pc, html_blocks, preVars>>
allVars == <<mainVars, runVars>>

(***************************************************************************)
(* Python str operations                                                   *)
(***************************************************************************)

\* s[a:b] for 0 <= a, with the end clamped as Python clamps it
Slice(s, a, b) == SubSeq(s, a + 1, IF b > Len(s) THEN Len(s) ELSE b)

\* s.startswith(p, i)
MatchAt(s, p, i) == /\ i + Len(p) <= Len(s)
                    /\ \A k \in 1..Len(p) : s[i + k] = p[k]

StartsWith(s, p) == MatchAt(s, p, 0)

\* the least element of a non-empty set of offsets
Least(S) == CHOOSE x \in S : \A y \in S : x <= y

\* s.find(p, i): the least offset >= i where p occurs, or -1
FindFrom(s, p, i) ==
    LET hits == { j \in i..(Len(s) - Len(p)) : MatchAt(s, p, j) }
    IN  IF hits = {} THEN -1 ELSE Least(hits)

Find(s, p) == FindFrom(s, p, 0)

\* s[i:].replace(old, new) for a non-empty old: every non-overlapping
\* occurrence, left to right
RECURSIVE ReplaceFrom(_, _, _, _)
ReplaceFrom(s, old, new, i) ==
    LET j == FindFrom(s, old, i)
    IN  IF j = -1 THEN Slice(s, i, Len(s))
        ELSE Slice(s, i, j) \o new \o ReplaceFrom(s, old, new, j + Len(old))

Replace(s, old, new) == ReplaceFrom(s, old, new, 0)

\* the offset of the first c at or after i, or len(s): the end of a
\* maximal run of [^c] starting at i
SpanNot(s, i, c) ==
    Least({ j \in i..(Len(s) - 1) : s[j + 1] = c } \cup { IF i > Len(s) THEN i ELSE Len(s) })

\* s.rfind(c) for one character c: the offset of the last c, or -1
RFindChar(s, c) ==
    LET hits == { j \in 0..(Len(s) - 1) : s[j + 1] = c }
    IN  IF hits = {} THEN -1 ELSE CHOOSE x \in hits : \A y \in hits : y <= x

\* "".join of a sequence of texts with a separator
RECURSIVE Join(_, _)
Join(parts, sep) ==
    IF Len(parts) = 0 THEN <<>>
    ELSE IF Len(parts) = 1 THEN parts[1]
    ELSE parts[1] \o sep \o Join(Tail(parts), sep)

(***************************************************************************)
(* src/image_processor.py                                                  *)
(***************************************************************************)

BangBracket == <<"!", "[">>                             \* ![
BracketParen == <<"]", "(">>                            \* ](
AttachmentScheme ==                                     \* confluence-attachment:
    <<"c", "o", "n", "f", "l", "u", "e", "n", "c", "e", "-",
      "a", "t", "t", "a", "c", "h", "m", "e", "n", "t", ":">>
url_patterns ==
    { <<"h", "t", "t", "p", ":", "/", "/">>,            \* http://
      <<"h", "t", "t", "p", "s", ":", "/", "/">>,       \* https://
      <<"f", "t", "p", ":", "/", "/">> }                \* ftp://

\* One match of  !\[([^\]]*)\]\(([^\)]+)\)  anchored at offset i.
\* [^\]]* ends at the first "]" and [^\)]+ at the first ")": neither class
\* can give a character back, so the greedy runs are the only candidates.
ImageMatch(s, i, scheme) ==
    LET a == SpanNot(s, i + 2, "]")
        p == a + 2 + Len(scheme)
        b == SpanNot(s, p, ")")
    IN  [ ok   |-> /\ MatchAt(s, BangBracket, i)
                   /\ MatchAt(s, BracketParen \o scheme, a)
                   /\ b > p
                   /\ b < Len(s),
          alt  |-> Slice(s, i + 2, a),
          path |-> Slice(s, p, b),
          end  |-> b + 1 ]

\* re.findall from offset i, then the loop of lines 37-41
\* (a match can only start where ![ occurs: the scan goes from one
\* occurrence to the next)
RECURSIVE extract_images_from(_, _)
extract_images_from(s, i) ==
    LET j == FindFrom(s, BangBracket, i)
    IN  IF j = -1 THEN <<>>
        ELSE LET m == ImageMatch(s, j, <<>>)
             IN  IF m.ok
                 THEN << [ full_match |-> BangBracket \o m.alt \o BracketParen
                                          \o m.path \o <<")">>,
                           alt_text   |-> m.alt,
                           image_path |-> m.path ] >>
                      \o extract_images_from(s, m.end)
                 ELSE extract_images_from(s, j + 1)

extract_images(markdown_content) == extract_images_from(markdown_content, 0)

is_local_path(path) == ~ \E pattern \in url_patterns : StartsWith(path, pattern)

\* os.path.isabs on POSIX
IsAbs(path) == StartsWith(path, <<"/">>)

\* pathlib: a / b for a b free of "." and ".." parts
PathJoin(a, b) == IF IsAbs(b) THEN b ELSE a \o <<"/">> \o b

resolve_image_path(base_path, relative_path) ==
    IF IsAbs(relative_path) THEN relative_path
    ELSE PathJoin(base_path, relative_path)

\* os.path.basename: what follows the last "/"
get_filename_from_path(path) ==
    Slice(path, RFindChar(path, "/") + 1, Len(path))

\* The files that exist on disk (Path.exists), as absolute paths:
\*   /w/d/x   /w/d/e/x   /w/y   /w/x
ExistingFiles ==
    { <<"/", "w", "/", "d", "/", "x">>,
      <<"/", "w", "/", "d", "/", "e", "/", "x">>,
      <<"/", "w", "/", "y">>,
      <<"/", "w", "/", "x">> }

Exists(path) == path \in ExistingFiles

\* PurePath.relative_to: the parts of base below root; ok is FALSE where
\* Python raises ValueError
relative_to(base, root) ==
    IF base = root THEN [ok |-> TRUE, rel |-> <<".">>]
    ELSE IF StartsWith(base, root \o <<"/">>)
         THEN [ok |-> TRUE, rel |-> Slice(base, Len(root) + 1, Len(base))]
         ELSE [ok |-> FALSE, rel |-> <<>>]

\* lines 114-132: the candidate locations, in the order they are tried
Attempts(base_path, env, image_path) ==
    LET resolved_path == resolve_image_path(base_path, image_path)
    IN  IF "GITHUB_WORKSPACE" \in DOMAIN env
        THEN LET workspace_root == env["GITHUB_WORKSPACE"]
                 workspace_fallback == PathJoin(workspace_root, image_path)
                 relative_base == relative_to(base_path, workspace_root)
             IN  IF base_path # workspace_root /\ relative_base.ok
                 THEN << resolved_path, workspace_fallback,
                         PathJoin(PathJoin(workspace_root, relative_base.rel), image_path) >>
                 ELSE << resolved_path, workspace_fallback >>
        ELSE << resolved_path >>

\* lines 134-150: the first attempt that exists, as a sequence of length 0 or 1
RECURSIVE FirstExisting(_)
FirstExisting(attempts) ==
    IF Len(attempts) = 0 THEN <<>>
    ELSE IF Exists(Head(attempts)) THEN << Head(attempts) >>
    ELSE FirstExisting(Tail(attempts))

Placeholder(alt_text, filename) ==
    BangBracket \o alt_text \o BracketParen \o AttachmentScheme \o filename \o <<")">>

\* QueueImage without the look into the ledger
QueueImageAlways(ledger, queue, path, image) ==
    Append(queue, [ path         |-> path,
                    filename     |-> get_filename_from_path(image.image_path),
                    alt_text     |-> image.alt_text,
                    original_ref |-> image.full_match ])

\* lines 96-110 and 137-148: queue the image unless the ledger has its path,
\* and replace every occurrence of the reference by the placeholder
QueueImage(ledger, queue, path, image) ==
    IF path \notin DOMAIN ledger
    THEN Append(queue, [ path         |-> path,
                         filename     |-> get_filename_from_path(image.image_path),
                         alt_text     |-> image.alt_text,
                         original_ref |-> image.full_match ])
    ELSE queue

FoundImage(ledger, acc, path, image) ==
    [ images_to_upload |-> QueueImage(ledger, acc.images_to_upload, path, image),
      modified_content |->
          Replace(acc.modified_content, image.full_match,
                  Placeholder(image.alt_text, get_filename_from_path(image.image_path))) ]

\* ProcessImage with the workspace root tried before the base directory
ProcessImageWorkspaceFirst(self, env, acc, image) ==
    IF is_local_path(image.image_path)
    THEN LET attempts == Attempts(self.base_path, env, image.image_path)
             found == FirstExisting(IF Len(attempts) >= 2
                                    THEN << attempts[2], attempts[1] >>
                                    ELSE attempts)
         IN  IF Len(found) = 1
             THEN FoundImage(self.uploaded_attachments, acc, found[1], image)
             ELSE acc
    ELSE acc

\* lines 90-155: the body of the loop for one image
ProcessImage(self, env, acc, image) ==
    IF is_local_path(image.image_path)
    THEN LET resolved_path == resolve_image_path(self.base_path, image.image_path)
         IN  IF Exists(resolved_path)
             THEN FoundImage(self.uploaded_attachments, acc, resolved_path, image)
             ELSE LET found == FirstExisting(Attempts(self.base_path, env, image.image_path))
                  IN  IF Len(found) = 1
                      THEN FoundImage(self.uploaded_attachments, acc, found[1], image)
                      ELSE acc
    ELSE acc

RECURSIVE ProcessImages(_, _, _, _)
ProcessImages(self, env, acc, images) ==
    IF Len(images) = 0 THEN acc
    ELSE ProcessImages(self, env, ProcessImage(self, env, acc, Head(images)), Tail(images))

\* returns (modified_content, images_to_upload)
process_markdown_images(self, env, markdown_content) ==
    ProcessImages(self, env,
                  [ images_to_upload |-> <<>>, modified_content |-> markdown_content ],
                  extract_images(markdown_content))

\* self.uploaded_attachments[local_path] = attachment_name
mark_as_uploaded(ledger, local_path, attachment_name) ==
    [ p \in DOMAIN ledger \cup {local_path} |->
        IF p = local_path THEN attachment_name ELSE ledger[p] ]

(***************************************************************************)
(* src/confluence_markdown_extension.py                                    *)
(***************************************************************************)

\* SpanHash for a pattern that takes two "#" at most
SpanHashUpToTwo(s, i) ==
    IF MatchAt(s, <<"#", "#">>, i) THEN i + 2 ELSE i + 1

\* the end of the run of "#" that starts at offset i
SpanHash(s, i) ==
    Least({ j \in i..(Len(s) - 1) : s[j + 1] # "#" } \cup { IF i > Len(s) THEN i ELSE Len(s) })

\* re.sub(r'\]\(#+', r'](#', line) from offset i
RECURSIVE SectionLinkSub(_, _)
SectionLinkSub(line, i) ==
    LET j == FindFrom(line, <<"]", "(", "#">>, i)
    IN  IF j = -1 THEN Slice(line, i, Len(line))
        ELSE Slice(line, i, j) \o <<"]", "(", "#">>
             \o SectionLinkSub(line, SpanHash(line, j + 2))

\* SectionLinkPreprocessor.run
SectionLinkPreprocessor_run(lines) ==
    [ n \in 1..Len(lines) |-> SectionLinkSub(lines[n], 0) ]

\* the tag up to the alt text: <ac:image ac:alt=
ImageTagOpen ==
    <<"<", "a", "c", ":", "i", "m", "a", "g", "e", " ", "a", "c", ":", "a", "l", "t",
      "=", "\"">>
\* between alt text and width: ac:width=
ImageTagWidth ==
    <<"\"", " ", "a", "c", ":", "w", "i", "d", "t", "h", "=", "\"">>
\* between alt text (or width) and filename: <ri:attachment ri:filename=
ImageTagFile ==
    <<"\"", ">", "<", "r", "i", ":", "a", "t", "t", "a", "c", "h", "m", "e", "n", "t",
      " ", "r", "i", ":", "f", "i", "l", "e", "n", "a", "m", "e", "=", "\"">>
\* after the filename: /></ac:image>
ImageTagClose ==
    <<"\"", " ", "/", ">", "<", "/", "a", "c", ":", "i", "m", "a", "g", "e", ">">>

\* WidthSet that takes every configured text for a width
WidthSetForAnyText(max_width) ==
    Len(max_width) = 1

\* max_width is <<>> for None, else a sequence holding the configured text
WidthSet(max_width) ==
    Len(max_width) = 1 /\ max_width[1] # <<>> /\ max_width[1] # <<"0">>

\* lines 53 and 60: the replacement for one match; max_width is put into the
\* replacement template as it is (a text free of backslashes)
ImageTag(alt, filename, max_width) ==
    ImageTagOpen \o alt
    \o (IF WidthSet(max_width) THEN ImageTagWidth \o max_width[1] ELSE <<>>)
    \o ImageTagFile \o filename \o ImageTagClose

\* re.sub(r'!\[([^\]]*)\]\(confluence-attachment:([^\)]+)\)', tag, line) from offset i
RECURSIVE ImageSub(_, _, _)
ImageSub(line, i, max_width) ==
    LET j == FindFrom(line, BangBracket, i)
    IN  IF j = -1 THEN Slice(line, i, Len(line))
        ELSE LET m == ImageMatch(line, j, AttachmentScheme)
             IN  IF m.ok
                 THEN Slice(line, i, j) \o ImageTag(m.alt, m.path, max_width)
                      \o ImageSub(line, m.end, max_width)
                 ELSE Slice(line, i, j + 1) \o ImageSub(line, j + 1, max_width)

\* ImagePreprocessor.run
ImagePreprocessor_run(lines, max_width) ==
    [ n \in 1..Len(lines) |-> ImageSub(lines[n], 0, max_width) ]

\* \w of the regular expression, over ASCII
WordChars ==
    { "a", "b", "c", "d", "e", "f", "g", "h", "i", "j", "k", "l", "m",
      "n", "o", "p", "q", "r", "s", "t", "u", "v", "w", "x", "y", "z",
      "A", "B", "C", "D", "E", "F", "G", "H", "I", "J", "K", "L", "M",
      "N", "O", "P", "Q", "R", "S", "T", "U", "V", "W", "X", "Y", "Z",
      "0", "1", "2", "3", "4", "5", "6", "7", "8", "9", "_" }

\* the end of the run of \w that starts at offset i
SpanWord(s, i) ==
    Least({ j \in i..(Len(s) - 1) : s[j + 1] \notin WordChars }
          \cup { IF i > Len(s) THEN i ELSE Len(s) })

\* html.unescape for the named references amp, lt, gt, quot (with or without
\* the semicolon) and the decimal reference #39: one pass, left to right, the
\* replacement text is never scanned again
Entities ==
    << [name |-> <<"a", "m", "p">>,      char |-> "&"],
       [name |-> <<"l", "t">>,           char |-> "<"],
       [name |-> <<"g", "t">>,           char |-> ">"],
       [name |-> <<"q", "u", "o", "t">>, char |-> "\""],
       [name |-> <<"#", "3", "9">>,      char |-> "'"] >>

EntityAt(s, i) ==
    LET hits == { n \in 1..Len(Entities) : MatchAt(s, <<"&">> \o Entities[n].name, i) }
    IN  IF hits = {} THEN [ok |-> FALSE, char |-> "", end |-> i]
        ELSE LET n == CHOOSE h \in hits : TRUE
                 e == i + 1 + Len(Entities[n].name)
             IN  [ ok   |-> TRUE,
                   char |-> Entities[n].char,
                   end  |-> IF MatchAt(s, <<";">>, e) THEN e + 1 ELSE e ]

RECURSIVE UnescapeFrom(_, _)
UnescapeFrom(s, i) ==
    LET j == FindFrom(s, <<"&">>, i)
    IN  IF j = -1 THEN Slice(s, i, Len(s))
        ELSE LET m == EntityAt(s, j)
             IN  IF m.ok THEN Slice(s, i, j) \o <<m.char>> \o UnescapeFrom(s, m.end)
                 ELSE Slice(s, i, j + 1) \o UnescapeFrom(s, j + 1)

html_unescape(s) == UnescapeFrom(s, 0)

\* the opening of a code block with a language, up to the language name
PreCodeLang ==
    <<"<", "p", "r", "e", ">", "<", "c", "o", "d", "e", " ", "c", "l", "a", "s", "s",
      "=", "\"", "l", "a", "n", "g", "u", "a", "g", "e", "-">>

\* what follows the language name
QuoteGt ==
    <<"\"", ">">>

\* the opening of a code block without a language: <pre><code>
PreCode ==
    <<"<", "p", "r", "e", ">", "<", "c", "o", "d", "e", ">">>

\* the closing of a code block: </code></pre>
CodePreClose ==
    <<"<", "/", "c", "o", "d", "e", ">", "<", "/", "p", "r", "e", ">">>

\* the macro up to the language value
MacroOpen ==
    <<"<", "a", "c", ":", "s", "t", "r", "u", "c", "t", "u", "r", "e", "d", "-", "m",
      "a", "c", "r", "o", " ", "a", "c", ":", "n", "a", "m", "e", "=", "\"", "c", "o",
      "d", "e", "\"", ">", "<", "a", "c", ":", "p", "a", "r", "a", "m", "e", "t", "e",
      "r", " ", "a", "c", ":", "n", "a", "m", "e", "=", "\"", "l", "a", "n", "g", "u",
      "a", "g", "e", "\"", ">">>

\* between the language value and the code: ...<![CDATA[
MacroBody ==
    <<"<", "/", "a", "c", ":", "p", "a", "r", "a", "m", "e", "t", "e", "r", ">", "<",
      "a", "c", ":", "p", "l", "a", "i", "n", "-", "t", "e", "x", "t", "-", "b", "o",
      "d", "y", ">", "<", "!", "[", "C", "D", "A", "T", "A", "[">>

\* after the code: ]]></ac:plain-text-body></ac:structured-macro>
MacroClose ==
    <<"]", "]", ">", "<", "/", "a", "c", ":", "p", "l", "a", "i", "n", "-", "t", "e",
      "x", "t", "-", "b", "o", "d", "y", ">", "<", "/", "a", "c", ":", "s", "t", "r",
      "u", "c", "t", "u", "r", "e", "d", "-", "m", "a", "c", "r", "o", ">">>

\* the language parameter with value bash
LanguageBash ==
    <<"<", "a", "c", ":", "p", "a", "r", "a", "m", "e", "t", "e", "r", " ", "a", "c",
      ":", "n", "a", "m", "e", "=", "\"", "l", "a", "n", "g", "u", "a", "g", "e", "\"",
      ">", "b", "a", "s", "h", "<", "/", "a", "c", ":", "p", "a", "r", "a", "m", "e",
      "t", "e", "r", ">">>

\* the language parameter with value shell
LanguageShell ==
    <<"<", "a", "c", ":", "p", "a", "r", "a", "m", "e", "t", "e", "r", " ", "a", "c",
      ":", "n", "a", "m", "e", "=", "\"", "l", "a", "n", "g", "u", "a", "g", "e", "\"",
      ">", "s", "h", "e", "l", "l", "<", "/", "a", "c", ":", "p", "a", "r", "a", "m",
      "e", "t", "e", "r", ">">>

\* the text none
None_ ==
    <<"n", "o", "n", "e">>

\* decode_and_wrap (lines 75-81).  groups holds the texts of the groups of
\* the match in order; every group of both patterns takes part in every
\* match, so match.lastindex is the number of groups of the pattern.
decode_and_wrap(groups) ==
    LET lastindex == Len(groups)
        language == IF lastindex >= 1 THEN groups[1] ELSE None_
        code_content == IF lastindex >= 2 THEN groups[2] ELSE groups[1]
        decoded_content == html_unescape(code_content)
    IN  MacroOpen \o language \o MacroBody \o decoded_content \o MacroClose

\* One match of  <pre><code class="language-(\w+)">(.*?)</code></pre>  (DOTALL)
\* anchored at offset i: the run of \w is followed by a character outside
\* \w, so it cannot be shortened; .*? stops at the first closing.
LangBlockMatch(s, i) ==
    LET w0 == i + Len(PreCodeLang)
        w1 == SpanWord(s, w0)
        c0 == w1 + Len(QuoteGt)
        e  == FindFrom(s, CodePreClose, c0)
    IN  [ ok     |-> /\ MatchAt(s, PreCodeLang, i)
                     /\ w1 > w0
                     /\ MatchAt(s, QuoteGt, w1)
                     /\ e # -1,
          groups |-> << Slice(s, w0, w1), Slice(s, c0, e) >>,
          end    |-> e + Len(CodePreClose) ]

\* One match of  <pre><code>(.*?)</code></pre>  (DOTALL) anchored at offset i
PlainBlockMatch(s, i) ==
    LET c0 == i + Len(PreCode)
        e  == FindFrom(s, CodePreClose, c0)
    IN  [ ok     |-> MatchAt(s, PreCode, i) /\ e # -1,
          groups |-> << Slice(s, c0, e) >>,
          end    |-> e + Len(CodePreClose) ]

\* lines 84-89: re.sub of the pattern with a language, from offset i
RECURSIVE LangBlockSub(_, _)
LangBlockSub(s, i) ==
    LET j == FindFrom(s, PreCodeLang, i)
    IN  IF j = -1 THEN Slice(s, i, Len(s))
        ELSE LET m == LangBlockMatch(s, j)
             IN  IF m.ok
                 THEN Slice(s, i, j) \o decode_and_wrap(m.groups) \o LangBlockSub(s, m.end)
                 ELSE Slice(s, i, j + 1) \o LangBlockSub(s, j + 1)

\* lines 92-97: re.sub of the pattern without a language, from offset i
RECURSIVE PlainBlockSub(_, _)
PlainBlockSub(s, i) ==
    LET j == FindFrom(s, PreCode, i)
    IN  IF j = -1 THEN Slice(s, i, Len(s))
        ELSE LET m == PlainBlockMatch(s, j)
             IN  IF m.ok
                 THEN Slice(s, i, j) \o decode_and_wrap(m.groups) \o PlainBlockSub(s, m.end)
                 ELSE Slice(s, i, j + 1) \o PlainBlockSub(s, j + 1)

\* the remap without its guard: bash is renamed shell in every text
LanguageRemapUnguarded(original, processed) ==
    Replace(processed, LanguageBash, LanguageShell)

\* lines 99-106: bash is renamed shell when the two passes changed the text
LanguageRemap(original, processed) ==
    IF processed # original
    THEN Replace(processed, LanguageBash, LanguageShell)
    ELSE processed

\* CodeBlockPostprocessor.run
CodeBlockPostprocessor_run(t) ==
    LanguageRemap(t, PlainBlockSub(LangBlockSub(t, 0), 0))

(***************************************************************************)
(* markdown.markdown(text, extensions=[tables, fenced_code,                *)
(* ConfluenceExtension()]) as main.py line 101 calls it.  The passes of    *)
(* ConfluenceExtension run where extendMarkdown registers them: of the     *)
(* preprocessors the one with the higher priority first (section links 1,  *)
(* images 0), the postprocessor on the generated HTML.  The library's own  *)
(* conversion is kept to what the documents of this model hold: one        *)
(* paragraph of text whose remaining image references become <img> tags.   *)
(***************************************************************************)

\* str.split on line feeds, from offset i
RECURSIVE SplitLines(_, _)
SplitLines(s, i) ==
    LET j == FindFrom(s, <<"\n">>, i)
    IN  IF j = -1 THEN << Slice(s, i, Len(s)) >>
        ELSE << Slice(s, i, j) >> \o SplitLines(s, j + 1)

ImgOpen ==
    <<"<", "i", "m", "g", " ", "a", "l", "t", "=", "\"">>
ImgSrc ==
    <<"\"", " ", "s", "r", "c", "=", "\"">>
ImgClose ==
    <<"\"", " ", "/", ">">>

\* the library's inline image pattern, from offset i
RECURSIVE LibraryImages(_, _)
LibraryImages(s, i) ==
    LET j == FindFrom(s, BangBracket, i)
    IN  IF j = -1 THEN Slice(s, i, Len(s))
        ELSE LET m == ImageMatch(s, j, <<>>)
             IN  IF m.ok
                 THEN Slice(s, i, j) \o ImgOpen \o m.alt \o ImgSrc \o m.path \o ImgClose
                      \o LibraryImages(s, m.end)
                 ELSE Slice(s, i, j + 1) \o LibraryImages(s, j + 1)

LibraryConvert(lines) ==
    LET source == Join(lines, <<"\n">>)
    IN  IF source = <<>> THEN <<>>
        ELSE <<"<", "p", ">">> \o LibraryImages(source, 0) \o <<"<", "/", "p", ">">>

\* markdown.markdown without the ImagePreprocessor of the extension
markdown_markdownWithoutImagePreprocessor(source) ==
    CodeBlockPostprocessor_run(
        LibraryConvert(SectionLinkPreprocessor_run(SplitLines(source, 0))))

\* ConfluenceExtension.extendMarkdown with max_image_width left at its default None
markdown_markdown(source) ==
    CodeBlockPostprocessor_run(
        LibraryConvert(
            ImagePreprocessor_run(
                SectionLinkPreprocessor_run(SplitLines(source, 0)), <<>>)))

(***************************************************************************)
(* The world a run of main() starts in                                     *)
(***************************************************************************)

\* the most image references a markdown file holds
MaxRefs == 2

\* the image references a markdown file is made of:
\*   ![a](x)   ![b](e/x)   ![a](http://h)   ![](y)
RefPool ==
    { <<"!", "[", "a", "]", "(", "x", ")">>,
      <<"!", "[", "b", "]", "(", "e", "/", "x", ")">>,
      <<"!", "[", "a", "]", "(", "h", "t", "t", "p", ":", "/", "/", "h", ")">>,
      <<"!", "[", "]", "(", "y", ")">> }

\* the markdown files: up to MaxRefs references, one space between them
MarkdownFiles ==
    { Join(refs, <<" ">>) : refs \in UNION { [1..n -> RefPool] : n \in 0..MaxRefs } }

\* the pages of the remote system: the page body holds both markers in order
\* (mSmEm), in the wrong order (EmS), only the first (Sm), or is empty; one
\* page has no version number
RemotePages ==
    { [status |-> "current", title |-> "T", version |-> 1, body |-> <<"m", "S", "m", "E", "m">>],
      [status |-> "current", title |-> "T", version |-> 1, body |-> <<"E", "m", "S">>],
      [status |-> "current", title |-> "T", version |-> 1, body |-> <<"S", "m">>],
      [status |-> "current", title |-> "T", version |-> 1, body |-> <<>>],
      [status |-> "current", title |-> "T", version |-> 0, body |-> <<"S", "E">>] }

required_keys ==
    << "filepath", "url", "username", "token", "insert_start_text", "insert_end_text" >>

\* f"INPUT_{key.upper()}"
InputName(key) ==
    CASE key = "filepath"          -> "INPUT_FILEPATH"
      [] key = "url"               -> "INPUT_URL"
      [] key = "username"          -> "INPUT_USERNAME"
      [] key = "token"             -> "INPUT_TOKEN"
      [] key = "insert_start_text" -> "INPUT_INSERT_START_TEXT"
      [] key = "insert_end_text"   -> "INPUT_INSERT_END_TEXT"

\* every parameter set: the markdown file is /w/d/R, the markers are S and E
AllInputs ==
    [ k \in { InputName(required_keys[n]) : n \in 1..Len(required_keys) } |->
        CASE k = "INPUT_FILEPATH"          -> <<"/", "w", "/", "d", "/", "R">>
          [] k = "INPUT_INSERT_START_TEXT" -> <<"S">>
          [] k = "INPUT_INSERT_END_TEXT"   -> <<"E">>
          [] OTHER                         -> <<"v">> ]

Without(f, k) == [ x \in DOMAIN f \ {k} |-> f[x] ]

\* the parameters: all set, the token not set, the start marker set to ""
InputPool ==
    { AllInputs,
      Without(AllInputs, "INPUT_TOKEN"),
      [AllInputs EXCEPT !["INPUT_INSERT_START_TEXT"] = <<>>] }

\* the rest of the environment: outside GitHub, with GITHUB_WORKSPACE=/w, or
\* with GITHUB_ACTION alone
GithubPool ==
    { [ k \in {} |-> <<>> ],
      [ k \in {"GITHUB_WORKSPACE"} |-> <<"/", "w">> ],
      [ k \in {"GITHUB_ACTION"} |-> <<"r">> ] }

Environs == { i @@ g : i \in InputPool, g \in GithubPool }

\* what client.send of an upload, or the open() before it, can do: the status
\* code of the response, or an exception
UploadOutcomes == { "200", "201", "500", "send_raises", "open_raises" }

EmptyLedger == [ p \in {} |-> <<>> ]

Step(name) == [ step |-> name, path |-> <<>>, outcome |-> "" ]

(***************************************************************************)
(* main.py: one run of main()                                              *)
(***************************************************************************)

\* environ.get(name) is None or empty
Missing(env, key) ==
    InputName(key) \notin DOMAIN env \/ env[InputName(key)] = <<>>

\* Path(filepath).parent for a path that holds a directory part
Parent(path) == Slice(path, 0, RFindChar(path, "/"))

base_path == Parent(vars["filepath"])

\* SpliceBody with the end marker left out of what is kept
SpliceBodyDropsEndMarker(body, start_substring, end_substring, html) ==
    LET start_index == Find(body, start_substring)
        end_index == Find(body, end_substring)
    IN  IF start_index = -1 \/ end_index = -1 \/ start_index > end_index
        THEN [ ok |-> FALSE, body |-> body ]
        ELSE [ ok   |-> TRUE,
               body |-> Slice(body, 0, start_index + Len(start_substring))
                        \o html
                        \o Slice(body, end_index + Len(end_substring), Len(body)) ]

\* SpliceBody with the markup put after the start marker and the old
\* region left where it was
SpliceBodyKeepsRegion(body, start_substring, end_substring, html) ==
    LET start_index == Find(body, start_substring)
        end_index == Find(body, end_substring)
    IN  IF start_index = -1 \/ end_index = -1 \/ start_index > end_index
        THEN [ ok |-> FALSE, body |-> body ]
        ELSE [ ok   |-> TRUE,
               body |-> Slice(body, 0, start_index + Len(start_substring))
                        \o html
                        \o Slice(body, start_index + Len(start_substring), Len(body)) ]

\* lines 104-109: the new page body, or ok = FALSE where SubstringNotFoundError
\* is raised
SpliceBody(body, start_substring, end_substring, html) ==
    LET start_index == Find(body, start_substring)
        end_index == Find(body, end_substring)
    IN  IF start_index = -1 \/ end_index = -1 \/ start_index > end_index
        THEN [ ok |-> FALSE, body |-> body ]
        ELSE [ ok   |-> TRUE,
               body |-> Slice(body, 0, start_index + Len(start_substring))
                        \o html
                        \o Slice(body, end_index, end_index + Len(end_substring))
                        \o Slice(body, end_index + Len(end_substring), Len(body)) ]

\* LedgerAfterUpload with every response taken for a success
LedgerAfterAnyResponse(ledger, image_info, outcome) ==
    IF outcome \in {"200", "201", "500"}
    THEN mark_as_uploaded(ledger, image_info.path, image_info.filename)
    ELSE ledger

\* lines 91-95: the ledger after the response to the upload of image_info
LedgerAfterUpload(ledger, image_info, outcome) ==
    IF outcome \in {"200", "201"}
    THEN mark_as_uploaded(ledger, image_info.path, image_info.filename)
    ELSE ledger

\* AfterUpload without the except clause: an exception ends the run
AfterUploadUncaught(outcome) ==
    IF outcome \in {"send_raises", "open_raises"}
    THEN [ pc |-> "aborted", error |-> "Exception" ]
    ELSE [ pc |-> "upload", error |-> "none" ]

\* lines 78 and 96-97: where main() goes after one pass of the loop body;
\* the except clause takes every exception of the pass
AfterUpload(outcome) == [ pc |-> "upload", error |-> "none" ]

\* lines 23-28
LoadParams ==
    /\ pc = "params"
    /\ LET missing == { n \in 1..Len(required_keys) : Missing(environ, required_keys[n]) }
           loaded == IF missing = {} THEN Len(required_keys) ELSE Least(missing) - 1
       IN  /\ vars' = [ k \in { required_keys[n] : n \in 1..loaded } |->
                          environ[InputName(k)] ]
           /\ IF missing = {}
              THEN pc' = "get_page" /\ error' = error
              ELSE pc' = "aborted" /\ error' = "InvalidParameterError"
    /\ steps' = Append(steps, Step("params"))
    /\ UNCHANGED << environ, md_file, remote_page, sent, page_body, md_text,
                    uploaded_attachments, processed_md_text, images_to_upload,
                    next_image, converted_html, runVars >>

\* lines 30-49
GetPage ==
    /\ pc = "get_page"
    /\ sent' = Append(sent, [ command |-> "GetPage", filename |-> <<>>, body |-> <<>> ])
    /\ page_body' = remote_page.body
    /\ IF /\ remote_page.status # ""
          /\ remote_page.title # ""
          /\ remote_page.body # <<>>
          /\ remote_page.version # 0
       THEN pc' = "read" /\ error' = error
       ELSE pc' = "aborted" /\ error' = "ConfluenceApiError"
    /\ steps' = Append(steps, Step("get_page"))
    /\ UNCHANGED << environ, md_file, remote_page, vars, md_text, uploaded_attachments,
                    processed_md_text, images_to_upload, next_image, converted_html,
                    runVars >>

\* lines 51-71
ReadMarkdown ==
    /\ pc = "read"
    /\ md_text' = md_file
    /\ environ' = IF "GITHUB_WORKSPACE" \notin DOMAIN environ
                     /\ "GITHUB_ACTION" \in DOMAIN environ
                  THEN environ @@ [ k \in {"GITHUB_WORKSPACE"} |-> base_path ]
                  ELSE environ
    /\ pc' = "images"
    /\ steps' = Append(steps, Step("read"))
    /\ UNCHANGED << error, md_file, remote_page, sent, vars, page_body,
                    uploaded_attachments, processed_md_text, images_to_upload,
                    next_image, converted_html, runVars >>

\* lines 73-74
ProcessMarkdownImages ==
    /\ pc = "images"
    /\ LET self == [ base_path |-> base_path, uploaded_attachments |-> EmptyLedger ]
           result == process_markdown_images(self, environ, md_text)
       IN  /\ uploaded_attachments' = self.uploaded_attachments
           /\ processed_md_text' = result.modified_content
           /\ images_to_upload' = result.images_to_upload
    /\ next_image' = 1
    /\ pc' = "upload"
    /\ steps' = Append(steps, Step("images"))
    /\ UNCHANGED << error, environ, md_file, remote_page, sent, vars, page_body,
                    md_text, converted_html, runVars >>

\* lines 77-97: one pass of the loop body
UploadImage ==
    /\ pc = "upload"
    /\ next_image <= Len(images_to_upload)
    /\ \E outcome \in UploadOutcomes :
        LET image_info == images_to_upload[next_image]
        IN  /\ sent' = IF outcome = "open_raises" THEN sent
                       ELSE Append(sent, [ command  |-> "UploadAttachment",
                                           filename |-> image_info.filename,
                                           body     |-> <<>> ])
            /\ uploaded_attachments' =
                   LedgerAfterUpload(uploaded_attachments, image_info, outcome)
            /\ pc' = AfterUpload(outcome).pc
            /\ error' = AfterUpload(outcome).error
            /\ steps' = Append(steps, [ step    |-> "upload",
                                        path    |-> image_info.path,
                                        outcome |-> outcome ])
    /\ next_image' = next_image + 1
    /\ UNCHANGED << environ, md_file, remote_page, vars, page_body, md_text,
                    processed_md_text, images_to_upload, converted_html, runVars >>

\* lines 99-101, reached when the loop has gone through images_to_upload
ConvertMarkdown ==
    /\ pc = "upload"
    /\ next_image > Len(images_to_upload)
    /\ converted_html' = markdown_markdown(processed_md_text)
    /\ pc' = "splice"
    /\ steps' = Append(steps, Step("convert"))
    /\ UNCHANGED << error, environ, md_file, remote_page, sent, vars, page_body,
                    md_text, uploaded_attachments, processed_md_text,
                    images_to_upload, next_image, runVars >>

\* lines 103-109
Splice ==
    /\ pc = "splice"
    /\ LET spliced == SpliceBody(page_body, vars["insert_start_text"],
                                 vars["insert_end_text"], converted_html)
       IN  IF spliced.ok
           THEN /\ page_body' = spliced.body
                /\ pc' = "update"
                /\ error' = error
                /\ steps' = Append(steps, Step("splice"))
           ELSE /\ page_body' = page_body
                /\ pc' = "aborted"
                /\ error' = "SubstringNotFoundError"
                /\ steps' = steps
    /\ UNCHANGED << environ, md_file, remote_page, sent, vars, md_text,
                    uploaded_attachments, processed_md_text, images_to_upload,
                    next_image, converted_html, runVars >>

\* lines 111-119: the page update and raise_for_status on its response
UpdatePage ==
    /\ pc = "update"
    /\ sent' = Append(sent, [ command |-> "EditPage", filename |-> <<>>, body |-> page_body ])
    /\ \E accepted \in BOOLEAN :
        IF accepted
        THEN /\ remote_page' = [ remote_page EXCEPT !.body = page_body,
                                                    !.version = remote_page.version + 1 ]
             /\ pc' = "done"
             /\ error' = error
        ELSE /\ remote_page' = remote_page
             /\ pc' = "aborted"
             /\ error' = "HTTPError"
    /\ steps' = Append(steps, Step("update"))
    /\ UNCHANGED << environ, md_file, vars, page_body, md_text, uploaded_attachments,
                    processed_md_text, images_to_upload, next_image, converted_html,
                    runVars >>

\* no preprocessor is called on its own
PreIdle ==
    arg_lines = <<>> /\ modified_lines = <<>> /\ self_max_width = <<>> /\ pre_calls = <<>>

\* no call of CodeBlockPostprocessor.run of its own is under way

RunIdle ==
    /\ text = <<>> /\ processed_text = <<>> /\ run_pc = "idle" /\ html_blocks = <<>>
    /\ PreIdle

Init ==
    /\ pc = "params"
    /\ error = "none"
    /\ environ \in Environs
    /\ md_file \in MarkdownFiles
    /\ remote_page \in RemotePages
    /\ sent = <<>>
    /\ steps = <<>>
    /\ vars = [ k \in {} |-> <<>> ]
    /\ page_body = <<>>
    /\ md_text = <<>>
    /\ uploaded_attachments = EmptyLedger
    /\ processed_md_text = <<>>
    /\ images_to_upload = <<>>
    /\ next_image = 1
    /\ converted_html = <<>>
    /\ RunIdle

Next ==
    \/ LoadParams
    \/ GetPage
    \/ ReadMarkdown
    \/ ProcessMarkdownImages
    \/ UploadImage
    \/ ConvertMarkdown
    \/ Splice
    \/ UpdatePage

Spec == Init /\ [][Next]_allVars

(***************************************************************************)
(* The splice of lines 103-109 on its own: main() stands at line 103 with  *)
(* any fetched page body up to MaxBodyLen characters, any pair of markers  *)
(* and any converted markup of the pools below.                            *)
(***************************************************************************)

\* the longest page body
MaxBodyLen == 5

SpliceBodies == UNION { [1..n -> {"S", "E", "m"}] : n \in 1..MaxBodyLen }

\* the markers: S, E, SE, ES, EE
SpliceMarkers == { <<"S">>, <<"E">>, <<"S", "E">>, <<"E", "S">>, <<"E", "E">> }

\* the converted markup: empty, h, hSE, E
SpliceMarkup == { <<>>, <<"h">>, <<"h", "S", "E">>, <<"E">> }

InitSplice ==
    /\ pc = "splice"
    /\ error = "none"
    /\ \E start_substring \in SpliceMarkers, end_substring \in SpliceMarkers :
        /\ environ = [ AllInputs EXCEPT !["INPUT_INSERT_START_TEXT"] = start_substring,
                                        !["INPUT_INSERT_END_TEXT"] = end_substring ]
        /\ vars = [ k \in { required_keys[n] : n \in 1..Len(required_keys) } |->
                      environ[InputName(k)] ]
    /\ md_file = <<>>
    /\ \E body \in SpliceBodies :
        /\ remote_page = [ status |-> "current", title |-> "T", version |-> 1, body |-> body ]
        /\ page_body = body
    /\ sent = << [ command |-> "GetPage", filename |-> <<>>, body |-> <<>> ] >>
    /\ steps = << Step("params"), Step("get_page"), Step("read"), Step("images"),
                  Step("convert") >>
    /\ md_text = <<>>
    /\ uploaded_attachments = EmptyLedger
    /\ processed_md_text = <<>>
    /\ images_to_upload = <<>>
    /\ next_image = 1
    /\ converted_html \in SpliceMarkup
    /\ RunIdle

NextSplice == Splice \/ UpdatePage

SpecSplice == InitSplice /\ [][NextSplice]_allVars

(***************************************************************************)
(* Runs of main() one after the other for a document that does not change: *)
(* each run fetches the body the run before it wrote and stands at line    *)
(* 103 with the same converted markup.                                     *)
(***************************************************************************)

\* the most runs
MaxRuns == 2

\* lines 17-101 of the next run: the page is fetched again
SyncAgain ==
    /\ pc = "done"
    /\ remote_page.version <= MaxRuns        \* the page starts with version 1
    /\ sent' = Append(sent, [ command |-> "GetPage", filename |-> <<>>, body |-> <<>> ])
    /\ page_body' = remote_page.body
    /\ steps' = steps \o << Step("params"), Step("get_page"), Step("read"),
                            Step("images"), Step("convert") >>
    /\ pc' = "splice"
    /\ UNCHANGED << error, environ, md_file, remote_page, vars, md_text,
                    uploaded_attachments, processed_md_text, images_to_upload,
                    next_image, converted_html, runVars >>

NextResync == Splice \/ UpdatePage \/ SyncAgain

SpecResync == InitSplice /\ [][NextResync]_allVars

(***************************************************************************)
(* CodeBlockPostprocessor.run on its own: the text it is called with is    *)
(* what the markdown converter emitted for up to MaxBlocks blocks, a line  *)
(* feed between them.  The converter escapes the content of a code block,  *)
(* so the contents below are escaped text.                                 *)
(***************************************************************************)

\* the most blocks of a generated text
MaxBlocks == 2

\* the language tags of the code blocks: none, py, bash, c++
BlockLanguages ==
    { <<>>, <<"p", "y">>, <<"b", "a", "s", "h">>, <<"c", "+", "+">> }

\* the contents of the code blocks, as the converter escapes them:
\*   x     a&amp;b     &amp;lt;     ]]&gt;
\*   &lt;pre&gt;&lt;code&gt;y&lt;/code&gt;&lt;/pre&gt;
BlockContents ==
    { <<"x">>,
      <<"a", "&", "a", "m", "p", ";", "b">>,
      <<"&", "a", "m", "p", ";", "l", "t", ";">>,
      <<"]", "]", "&", "g", "t", ";">>,
      <<"&", "l", "t", ";", "p", "r", "e", "&", "g", "t", ";", "&", "l", "t", ";", "c",
        "o", "d", "e", "&", "g", "t", ";", "y", "&", "l", "t", ";", "/", "c", "o", "d",
        "e", "&", "g", "t", ";", "&", "l", "t", ";", "/", "p", "r", "e", "&", "g", "t",
        ";">> }

\* text outside code blocks: a paragraph, and a paragraph that spells the
\* language parameter of a macro with value bash
PlainTexts ==
    { <<"<", "p", ">", "t", "<", "/", "p", ">">>,
      <<"<", "p", ">">> \o LanguageBash \o <<"<", "/", "p", ">">> }

HtmlBlocks ==
    { [ kind |-> "code", language |-> l, content |-> c ] :
        l \in BlockLanguages, c \in BlockContents }
    \cup { [ kind |-> "text", language |-> <<>>, content |-> c ] : c \in PlainTexts }

\* the text the converter emits for one block
Render(block) ==
    IF block.kind = "text" THEN block.content
    ELSE IF block.language = <<>>
         THEN PreCode \o block.content \o CodePreClose
         ELSE PreCodeLang \o block.language \o QuoteGt \o block.content \o CodePreClose

RenderAll(blocks) == Join([ n \in 1..Len(blocks) |-> Render(blocks[n]) ], <<"\n">>)

\* no run of main() is under way
MainIdle ==
    /\ pc = "idle"
    /\ error = "none"
    /\ environ = [ k \in {} |-> <<>> ]
    /\ md_file = <<>>
    /\ remote_page = [ status |-> "", title |-> "", version |-> 0, body |-> <<>> ]
    /\ sent = <<>>
    /\ steps = <<>>
    /\ vars = [ k \in {} |-> <<>> ]
    /\ page_body = <<>>
    /\ md_text = <<>>
    /\ uploaded_attachments = EmptyLedger
    /\ processed_md_text = <<>>
    /\ images_to_upload = <<>>
    /\ next_image = 1
    /\ converted_html = <<>>

InitCodeBlock ==
    /\ MainIdle
    /\ html_blocks \in UNION { [1..n -> HtmlBlocks] : n \in 0..MaxBlocks }
    /\ text = RenderAll(html_blocks)
    /\ PreIdle
    /\ processed_text = <<>>
    /\ run_pc = "call"

\* lines 71-107
RunCodeBlockPostprocessor ==
    /\ run_pc = "call"
    /\ processed_text' = CodeBlockPostprocessor_run(text)
    /\ run_pc' = "returned"
    /\ UNCHANGED << text, html_blocks, preVars, mainVars >>

NextCodeBlock == RunCodeBlockPostprocessor

SpecCodeBlock == InitCodeBlock /\ [][NextCodeBlock]_allVars

(***************************************************************************)
(* An ImageProcessor on its own: it is created for a base directory, and   *)
(* its caller marks files as uploaded and then calls                       *)
(* process_markdown_images with a document, as the tests of the repository *)
(* do.                                                                     *)
(***************************************************************************)

\* the image references of the documents: those of RefPool and
\*   ![a](z)   ![c](d/x)   ![c](/w/y)   ![q](http://h![a](x)
\* the last one is one remote reference whose address ends with the text ![a](x
ImageRefPool ==
    RefPool
    \cup { <<"!", "[", "a", "]", "(", "z", ")">>,
           <<"!", "[", "c", "]", "(", "d", "/", "x", ")">>,
           <<"!", "[", "c", "]", "(", "/", "w", "/", "y", ")">>,
           <<"!", "[", "q", "]", "(", "h", "t", "t", "p", ":", "/", "/", "h", "!", "[",
             "a", "]", "(", "x", ")">> }

ImageDocuments ==
    { Join(refs, <<" ">>) : refs \in UNION { [1..n -> ImageRefPool] : n \in 0..MaxRefs } }

\* the markdown files the processors are created for:  /w/d/R   /w/R   /q/R
ImageFilepaths ==
    { <<"/", "w", "/", "d", "/", "R">>, <<"/", "w", "/", "R">>, <<"/", "q", "/", "R">> }

\* the environment: without GITHUB_WORKSPACE, or with GITHUB_WORKSPACE=/w
ImageEnvirons ==
    { [ k \in {} |-> <<>> ], [ k \in {"GITHUB_WORKSPACE"} |-> <<"/", "w">> ] }

\* ImageProcessor.__init__ (lines 17-24) with base_path = Path(filepath).parent
InitImages ==
    /\ pc = "object"
    /\ error = "none"
    /\ environ \in ImageEnvirons
    /\ md_file = <<>>
    /\ remote_page = [ status |-> "", title |-> "", version |-> 0, body |-> <<>> ]
    /\ sent = <<>>
    /\ steps = <<>>
    /\ vars \in { [ k \in {"filepath"} |-> f ] : f \in ImageFilepaths }
    /\ page_body = <<>>
    /\ md_text \in ImageDocuments
    /\ uploaded_attachments = EmptyLedger
    /\ processed_md_text = <<>>
    /\ images_to_upload = <<>>
    /\ next_image = 1
    /\ converted_html = <<>>
    /\ RunIdle

\* lines 159-166, called for a file that exists under its file name
MarkAsUploaded ==
    /\ pc = "object"
    /\ \E local_path \in ExistingFiles :
          uploaded_attachments' = mark_as_uploaded(uploaded_attachments, local_path,
                                                   get_filename_from_path(local_path))
    /\ UNCHANGED << pc, error, environ, md_file, remote_page, sent, steps, vars,
                    page_body, md_text, processed_md_text, images_to_upload,
                    next_image, converted_html, runVars >>

\* lines 79-157, called with the document
CallProcessMarkdownImages ==
    /\ pc = "object"
    /\ LET self == [ base_path |-> base_path,
                     uploaded_attachments |-> uploaded_attachments ]
           result == process_markdown_images(self, environ, md_text)
       IN  /\ processed_md_text' = result.modified_content
           /\ images_to_upload' = result.images_to_upload
    /\ pc' = "returned"
    /\ steps' = Append(steps, Step("images"))
    /\ UNCHANGED << error, environ, md_file, remote_page, sent, vars, page_body,
                    md_text, uploaded_attachments, next_image, converted_html, runVars >>

NextImages == MarkAsUploaded \/ CallProcessMarkdownImages

SpecImages == InitImages /\ [][NextImages]_allVars

(***************************************************************************)
(* ImagePreprocessor.run on its own: a preprocessor created with a         *)
(* max_width is called with up to MaxLines lines.                          *)
(***************************************************************************)

\* the most lines of a call
MaxLines == 2

\* what a line is made of: placeholder tokens, an image reference that is no
\* placeholder, and a word
\*   ![a](confluence-attachment:x)   ![](confluence-attachment:e.png)
\*   ![a](x)   t
LineItems ==
    { <<"!", "[", "a", "]", "(", "c", "o", "n", "f", "l", "u", "e", "n", "c", "e", "-",
        "a", "t", "t", "a", "c", "h", "m", "e", "n", "t", ":", "x", ")">>,
      <<"!", "[", "]", "(", "c", "o", "n", "f", "l", "u", "e", "n", "c", "e", "-", "a",
        "t", "t", "a", "c", "h", "m", "e", "n", "t", ":", "e", ".", "p", "n", "g", ")">>,
      <<"!", "[", "a", "]", "(", "x", ")">>,
      <<"t">> }

\* the lines: empty, one item, or two items with a space between them
LineTexts ==
    { <<>> } \cup LineItems \cup { a \o <<" ">> \o b : a \in LineItems, b \in LineItems }

\* max_width: None, the empty text, 0, 600, 00
Widths ==
    { <<>>, << <<>> >>, << <<"0">> >>, << <<"6", "0", "0">> >>, << <<"0", "0">> >> }

IdleButPreprocessor ==
    /\ MainIdle
    /\ text = <<>> /\ processed_text = <<>> /\ run_pc = "idle" /\ html_blocks = <<>>

\* ImagePreprocessor.__init__ (lines 31-39)
InitImagePreprocessor ==
    /\ IdleButPreprocessor
    /\ arg_lines \in UNION { [1..n -> LineTexts] : n \in 0..MaxLines }
    /\ self_max_width \in Widths
    /\ modified_lines = <<>>
    /\ pre_calls = <<>>

\* lines 41-64
RunImagePreprocessor ==
    /\ pre_calls = <<>>
    /\ modified_lines' = ImagePreprocessor_run(arg_lines, self_max_width)
    /\ pre_calls' = Append(pre_calls, arg_lines)
    /\ UNCHANGED << arg_lines, self_max_width, text, processed_text, run_pc,
                    html_blocks, mainVars >>

NextImagePreprocessor == RunImagePreprocessor

SpecImagePreprocessor == InitImagePreprocessor /\ [][NextImagePreprocessor]_allVars

(***************************************************************************)
(* SectionLinkPreprocessor.run on its own: it is called with a list of     *)
(* lines, and called again with the lines it returned.                     *)
(***************************************************************************)

\* the longest first line
MaxLineLen == 5

\* the first line: any text over  ] ( # a  up to MaxLineLen characters
SectionLines ==
    UNION { [1..n -> {"]", "(", "#", "a"}] : n \in 0..MaxLineLen }

\* the line after it, if there is one:  [a](##b) [c](###d)   or   a
SecondLines ==
    { <<"[", "a", "]", "(", "#", "#", "b", ")", " ", "[", "c", "]", "(", "#", "#", "#",
        "d", ")">>,
      <<"a">> }

InitSectionLinks ==
    /\ IdleButPreprocessor
    /\ arg_lines \in { << l >> : l \in SectionLines }
                     \cup { << l, m >> : l \in SectionLines, m \in SecondLines }
    /\ self_max_width = <<>>
    /\ modified_lines = <<>>
    /\ pre_calls = <<>>

\* lines 17-25: the first call
RunSectionLinkPreprocessor ==
    /\ pre_calls = <<>>
    /\ modified_lines' = SectionLinkPreprocessor_run(arg_lines)
    /\ pre_calls' = Append(pre_calls, arg_lines)
    /\ UNCHANGED << arg_lines, self_max_width, text, processed_text, run_pc,
                    html_blocks, mainVars >>

\* lines 17-25: the call with the lines the first call returned
RunSectionLinkPreprocessorAgain ==
    /\ Len(pre_calls) = 1
    /\ arg_lines' = modified_lines
    /\ modified_lines' = SectionLinkPreprocessor_run(modified_lines)
    /\ pre_calls' = Append(pre_calls, modified_lines)
    /\ UNCHANGED << self_max_width, text, processed_text, run_pc, html_blocks, mainVars >>

NextSectionLinks == RunSectionLinkPreprocessor \/ RunSectionLinkPreprocessorAgain

SpecSectionLinks == InitSectionLinks /\ [][NextSectionLinks]_allVars

(***************************************************************************)
(* Claims                                                                  *)
(***************************************************************************)

StepNames == { steps[n].step : n \in 1..Len(steps) }

\* the passes of the upload loop so far, in order
UploadSteps == SelectSeq(steps, LAMBDA st : st.step = "upload")

\* process_markdown_images has returned in this run
ImagesProcessed == "images" \in StepNames

\* the location process_markdown_images uses for a reference: a sequence of
\* length 0 (remote, or found nowhere) or 1
Location(image) ==
    IF is_local_path(image.image_path)
    THEN FirstExisting(Attempts(base_path, environ, image.image_path))
    ELSE <<>>

\* how often the text p occurs in s from offset i on, overlaps not counted
RECURSIVE Occurrences(_, _, _)
Occurrences(s, p, i) ==
    LET j == FindFrom(s, p, i)
    IN  IF j = -1 THEN 0 ELSE 1 + Occurrences(s, p, j + Len(p))

\* C1: with the ledger empty at the start, a literal image reference that
\* occurs two or more times in the document and resolves to an existing local
\* file has exactly one entry in the returned upload list for its resolved
\* path, and no occurrence of the reference is left in the returned markdown:
\* each one is replaced by the placeholder.
C1_DuplicateReferenceQueuedOnce ==
    ImagesProcessed =>
        LET images == extract_images(md_text)
        IN  \A n \in 1..Len(images) :
                ( /\ Occurrences(md_text, images[n].full_match, 0) >= 2
                  /\ Len(Location(images[n])) = 1 )
                =>
                ( /\ Cardinality({ k \in 1..Len(images_to_upload) :
                                     images_to_upload[k].path = Location(images[n])[1] }) = 1
                  /\ Find(processed_md_text, images[n].full_match) = -1
                  /\ Find(processed_md_text,
                          Placeholder(images[n].alt_text,
                                      get_filename_from_path(images[n].image_path))) # -1 )

\* the place of a step in the order the claim C2 gives
Rank(name) ==
    CASE name = "images"  -> 1
      [] name = "convert" -> 2
      [] name = "splice"  -> 3
      [] name = "upload"  -> 4
      [] name = "update"  -> 5
      [] OTHER            -> 0

\* C2: the steps of a run happen in the order image scan/resolve/rewrite,
\* conversion, splice, upload loop, remote page write; no attachment upload
\* happens before the conversion and the splice are done.
C2_UploadAfterConvertAndSplice ==
    /\ \A i, j \in 1..Len(steps) :
          i < j => Rank(steps[i].step) <= Rank(steps[j].step)
    /\ \A n \in 1..Len(steps) :
          steps[n].step = "upload" =>
              \E i, j \in 1..(n - 1) : steps[i].step = "convert" /\ steps[j].step = "splice"

\* a write to the remote system: an attachment upload or a page update
IsWrite(command) == command.command \in {"UploadAttachment", "EditPage"}

\* C3: a run that aborts because a required parameter is missing or because
\* the markers are not both found in order in the fetched page body has
\* issued no write to the remote system.
C3_NoWriteBeforeConfigurationError ==
    ( pc = "aborted" /\ error \in {"InvalidParameterError", "SubstringNotFoundError"} )
    => \A n \in 1..Len(sent) : ~ IsWrite(sent[n])

\* the text p occurs in s
Occurs(s, p) == \E i \in 0..(Len(s) - Len(p)) : MatchAt(s, p, i)

\* the first offset at which p occurs in s, for a p that occurs in s
FirstOffset(s, p) ==
    CHOOSE i \in 0..(Len(s) - Len(p)) :
        MatchAt(s, p, i) /\ \A j \in 0..(i - 1) : ~ MatchAt(s, p, j)

\* both markers occur in the body, the first start marker not after the first
\* end marker
MarkersInOrder(body, start_marker, end_marker) ==
    /\ Occurs(body, start_marker)
    /\ Occurs(body, end_marker)
    /\ FirstOffset(body, start_marker) <= FirstOffset(body, end_marker)

\* C4: when the splice has succeeded, the new page body is the fetched body up
\* to and including the first start marker, then the converted markup, then
\* the fetched body from the first end marker on: the prefix, the end marker
\* and what follows it are kept as they were, and nothing else of the old
\* body remains.  The splice succeeds exactly when both markers are found
\* with the first start marker not after the first end marker.
C4_SpliceKeepsPrefixAndSuffix ==
    LET body == remote_page.body
        start_marker == vars["insert_start_text"]
        end_marker == vars["insert_end_text"]
    IN  /\ pc = "update" =>
            /\ MarkersInOrder(body, start_marker, end_marker)
            /\ LET s == FirstOffset(body, start_marker)
                   e == FirstOffset(body, end_marker)
                   kept == s + Len(start_marker)
               IN  /\ Len(page_body) = kept + Len(converted_html) + (Len(body) - e)
                   /\ \A k \in 1..kept : page_body[k] = body[k]
                   /\ \A k \in 1..Len(converted_html) :
                          page_body[kept + k] = converted_html[k]
                   /\ \A k \in 1..(Len(body) - e) :
                          page_body[kept + Len(converted_html) + k] = body[e + k]
                   /\ MatchAt(page_body, end_marker, kept + Len(converted_html))
        /\ (pc = "aborted" /\ error = "SubstringNotFoundError") =>
            ~ MarkersInOrder(body, start_marker, end_marker)

\* C4 witness: a splice that dropped text between the markers, put markup in
\* its place and kept text after the end marker
C4_Witness ==
    LET body == remote_page.body
        start_marker == vars["insert_start_text"]
        end_marker == vars["insert_end_text"]
    IN  /\ pc = "update"
        /\ converted_html # <<>>
        /\ FirstOffset(body, end_marker) > FirstOffset(body, start_marker) + Len(start_marker)
        /\ FirstOffset(body, end_marker) + Len(end_marker) < Len(body)

\* C5: whatever the outcomes of the uploads, the passes of the upload loop go
\* through the queued images one by one in list order, each image once; a run
\* that has ended after the images were processed has gone through every
\* queued image and through the conversion, a failed upload is never what
\* ended it, and it has updated the page if the splice succeeded.
C5_EveryQueuedImageAttemptedOnce ==
    ImagesProcessed =>
        /\ Len(UploadSteps) <= Len(images_to_upload)
        /\ \A k \in 1..Len(UploadSteps) : UploadSteps[k].path = images_to_upload[k].path
        /\ pc \in {"done", "aborted"} =>
            /\ Len(UploadSteps) = Len(images_to_upload)
            /\ "convert" \in StepNames
            /\ error \in {"none", "SubstringNotFoundError", "HTTPError"}
            /\ "splice" \in StepNames => "update" \in StepNames
        /\ "convert" \in StepNames => Len(UploadSteps) = Len(images_to_upload)

\* C5 witness: a finished run whose first upload failed, whose second upload
\* was attempted all the same, and which updated the page
C5_Witness ==
    /\ pc = "done"
    /\ Len(UploadSteps) >= 2
    /\ UploadSteps[1].outcome \in {"send_raises", "open_raises"}
    /\ UploadSteps[2].outcome \in {"500", "200"}
    /\ sent[Len(sent)].command = "EditPage"

\* C6: the ledger is empty when the ImageProcessor is created, and at every
\* point of a run it holds exactly the paths whose upload returned 200 or
\* 201, each with the file name it was uploaded under: processing the images,
\* a failed upload and an upload that raises add nothing to it.
C6_LedgerHoldsSuccessfulUploadsOnly ==
    /\ DOMAIN uploaded_attachments =
          { UploadSteps[k].path :
              k \in { n \in 1..Len(UploadSteps) : UploadSteps[n].outcome \in {"200", "201"} } }
    /\ \A p \in DOMAIN uploaded_attachments :
          \E k \in 1..Len(images_to_upload) :
              /\ images_to_upload[k].path = p
              /\ images_to_upload[k].filename = uploaded_attachments[p]

\* C6 witness: two different files were queued, the upload of the first
\* failed or raised, the upload of the second returned 201, and the ledger
\* holds the second file alone
C6_Witness ==
    /\ Len(UploadSteps) = 2
    /\ UploadSteps[1].path # UploadSteps[2].path
    /\ UploadSteps[1].outcome \in {"500", "send_raises"}
    /\ UploadSteps[2].outcome = "201"
    /\ DOMAIN uploaded_attachments = {UploadSteps[2].path}

\* the file names of the placeholder tokens of a text, from offset i on
RECURSIVE PlaceholderNames(_, _)
PlaceholderNames(s, i) ==
    LET j == FindFrom(s, BangBracket, i)
    IN  IF j = -1 THEN {}
        ELSE LET m == ImageMatch(s, j, AttachmentScheme)
             IN  IF m.ok THEN {m.path} \cup PlaceholderNames(s, m.end)
                 ELSE PlaceholderNames(s, j + 1)

\* C7: after process_markdown_images, the file name of every placeholder
\* token of the rewritten markdown is the file name of exactly one resolved
\* path queued for upload in the run: two local files never share a
\* placeholder file name, and no placeholder is without an upload.
C7_PlaceholderNamesOneFile ==
    ImagesProcessed =>
        \A filename \in PlaceholderNames(processed_md_text, 0) :
            Cardinality({ images_to_upload[k].path :
                            k \in { n \in 1..Len(images_to_upload) :
                                      images_to_upload[n].filename = filename } }) = 1

\* the language value of the macro for a code block: none for a block
\* without a language tag, shell for bash, else the tag
MacroLanguage(language) ==
    IF language = <<>> THEN None_
    ELSE IF language = <<"b", "a", "s", "h">> THEN <<"s", "h", "e", "l", "l">>
    ELSE language

\* the text a block is to be converted to: a code block becomes the macro with
\* its language value and its decoded content, other text stays
ExpectedBlock(block) ==
    IF block.kind = "text" THEN block.content
    ELSE MacroOpen \o MacroLanguage(block.language) \o MacroBody
         \o html_unescape(block.content) \o MacroClose

ExpectedText(blocks) ==
    Join([ n \in 1..Len(blocks) |-> ExpectedBlock(blocks[n]) ], <<"\n">>)

\* C8: every code block without a language tag is converted into a code macro
\* whose language parameter is none and whose body is the decoded content.
C8_UntaggedBlockGetsLanguageNone ==
    ( /\ run_pc = "returned"
      /\ \A n \in 1..Len(html_blocks) :
            html_blocks[n].kind = "code" /\ html_blocks[n].language = <<>> )
    => processed_text = ExpectedText(html_blocks)

\* C9: every code block with a language tag L, for any L the converter can
\* emit, is converted into a code macro whose language parameter is L (shell
\* for bash); of several code blocks each one is converted on its own, with
\* its own language and content.
C9_TaggedBlocksConvertedWithOwnLanguage ==
    ( /\ run_pc = "returned"
      /\ \A n \in 1..Len(html_blocks) :
            html_blocks[n].kind = "code" /\ html_blocks[n].language # <<>> )
    => processed_text = ExpectedText(html_blocks)

\* the opening and the closing delimiter of the literal-text container
CDataOpen ==
    <<"<", "!", "[", "C", "D", "A", "T", "A", "[">>
CDataClose ==
    <<"]", "]", ">">>

\* the body of the first macro of a text, read back: what stands between the
\* first opening of the container and the first closing delimiter after it
ReadBody(s) ==
    LET o == Find(s, CDataOpen)
        c == FindFrom(s, CDataClose, o + Len(CDataOpen))
    IN  Slice(s, o + Len(CDataOpen), c)

\* the language tags the pattern of the first pass matches
IsWord(language) == language # <<>> /\ \A n \in 1..Len(language) : language[n] \in WordChars

\* C10: for every content C of a code block that is converted, the body of
\* the macro, read back as the text between the opening of the container and
\* its closing delimiter, is the content decoded once.
C10_BodyReadsBackAsDecodedContent ==
    ( /\ run_pc = "returned"
      /\ Len(html_blocks) = 1
      /\ html_blocks[1].kind = "code"
      /\ html_blocks[1].language = <<>> \/ IsWord(html_blocks[1].language) )
    => /\ Occurs(processed_text, CDataOpen)
       /\ ReadBody(processed_text) = html_unescape(html_blocks[1].content)

\* the opening and the closing of a language parameter
ParamOpen ==
    <<"<", "a", "c", ":", "p", "a", "r", "a", "m", "e", "t", "e", "r", " ", "a", "c",
      ":", "n", "a", "m", "e", "=", "\"", "l", "a", "n", "g", "u", "a", "g", "e", "\"",
      ">">>
ParamClose ==
    <<"<", "/", "a", "c", ":", "p", "a", "r", "a", "m", "e", "t", "e", "r", ">">>

Bash_ == <<"b", "a", "s", "h">>
Shell_ == <<"s", "h", "e", "l", "l">>

\* the values of the language parameters of a text in order, from offset i on
RECURSIVE LanguageValues(_, _)
LanguageValues(s, i) ==
    LET o == FindFrom(s, ParamOpen, i)
        c == FindFrom(s, ParamClose, o + Len(ParamOpen))
    IN  IF o = -1 \/ c = -1 THEN <<>>
        ELSE << Slice(s, o + Len(ParamOpen), c) >> \o LanguageValues(s, c + Len(ParamClose))

\* C11: a text without a code block is returned as it is, also when it spells
\* the language parameter with value bash; when the two passes converted a
\* block, the language values of the result are those the passes produced,
\* in order, with shell in place of every bash and every other value as it
\* was, and the macro of every block tagged with a word carries the tag
\* (shell for bash).
C11_RemapOnlyBashAndOnlyAfterConversion ==
    run_pc = "returned" =>
        /\ (\A n \in 1..Len(html_blocks) : html_blocks[n].kind = "text")
              => processed_text = text
        /\ processed_text # text =>
              LET before == LanguageValues(PlainBlockSub(LangBlockSub(text, 0), 0), 0)
                  after == LanguageValues(processed_text, 0)
              IN  /\ Len(after) = Len(before)
                  /\ \A k \in 1..Len(before) :
                        after[k] = IF before[k] = Bash_ THEN Shell_ ELSE before[k]
        /\ \A n \in 1..Len(html_blocks) :
              (html_blocks[n].kind = "code" /\ IsWord(html_blocks[n].language))
              => Occurs(processed_text,
                        MacroOpen \o MacroLanguage(html_blocks[n].language) \o MacroBody)

\* C11 witness: a text with a block tagged bash and a block tagged py was
\* converted; its language values are shell and py
C11_Witness ==
    /\ run_pc = "returned"
    /\ Len(html_blocks) = 2
    /\ html_blocks[1].kind = "code" /\ html_blocks[1].language = Bash_
    /\ html_blocks[2].kind = "code" /\ html_blocks[2].language = <<"p", "y">>
    /\ html_blocks[1].content = <<"x">> /\ html_blocks[2].content = <<"x">>
    /\ LanguageValues(processed_text, 0) = << Shell_, <<"p", "y">> >>

\* the candidate locations of a local image path in the order of the claim:
\* the path itself if absolute, else the base directory joined with it; with
\* a workspace root, the root joined with the path; and, for a base directory
\* below the root, the root joined with the base directory relative to the
\* root, joined with the path
Candidates(path) ==
    LET root == environ["GITHUB_WORKSPACE"]
        below == StartsWith(base_path, root \o <<"/">>)
        relative == SubSeq(base_path, Len(root) + 2, Len(base_path))
    IN  << IF IsAbs(path) THEN path ELSE base_path \o <<"/">> \o path >>
        \o ( IF "GITHUB_WORKSPACE" \in DOMAIN environ
             THEN << IF IsAbs(path) THEN path ELSE root \o <<"/">> \o path >>
                  \o ( IF below
                       THEN << IF IsAbs(path) THEN path
                               ELSE root \o <<"/">> \o relative \o <<"/">> \o path >>
                       ELSE <<>> )
             ELSE <<>> )

\* a reference that is to be rewritten: its path is not remote and one of
\* its candidate locations exists
Eligible(image) ==
    /\ ~ \E scheme \in url_patterns : StartsWith(image.image_path, scheme)
    /\ \E k \in 1..Len(Candidates(image.image_path)) :
          Candidates(image.image_path)[k] \in ExistingFiles

\* the text a reference is to have in the returned markdown
ExpectedReference(image) ==
    IF Eligible(image)
    THEN Placeholder(image.alt_text, get_filename_from_path(image.image_path))
    ELSE image.full_match

\* C12: process_markdown_images returns the document with the references that
\* are local and found at a candidate location rewritten to placeholders and
\* every other reference (remote, or found nowhere) as it was; the upload
\* list holds entries of rewritten references only, and one for every
\* rewritten reference whose location is not in the ledger.
C12_OnlyFoundLocalReferencesRewritten ==
    ImagesProcessed =>
        LET images == extract_images(md_text)
        IN  /\ processed_md_text =
                  Join([ n \in 1..Len(images) |-> ExpectedReference(images[n]) ], <<" ">>)
            /\ \A k \in 1..Len(images_to_upload) :
                  \E n \in 1..Len(images) :
                      /\ Eligible(images[n])
                      /\ images[n].full_match = images_to_upload[k].original_ref
            /\ \A n \in 1..Len(images) :
                  ( /\ Eligible(images[n])
                    /\ \A c \in 1..Len(Candidates(images[n].image_path)) :
                          Candidates(images[n].image_path)[c] \notin DOMAIN uploaded_attachments )
                  => \E k \in 1..Len(images_to_upload) :
                        images_to_upload[k].original_ref = images[n].full_match

\* the first candidate location that exists, as a sequence of length 0 or 1
FirstCandidate(path) ==
    LET candidates == Candidates(path)
        existing == { k \in 1..Len(candidates) : candidates[k] \in ExistingFiles }
    IN  IF existing = {} THEN <<>> ELSE << candidates[Least(existing)] >>

\* a local reference whose location exists and is a key of the ledger
AlreadyUploaded(image) ==
    /\ ~ \E scheme \in url_patterns : StartsWith(image.image_path, scheme)
    /\ FirstCandidate(image.image_path) # <<>>
    /\ FirstCandidate(image.image_path)[1] \in DOMAIN uploaded_attachments

\* C13: when process_markdown_images is called with the location of a local
\* reference already a key of the ledger, the returned upload list has no
\* entry for that location, and the reference stands in the returned
\* markdown as its placeholder.
C13_LedgerEntryNotQueuedButRewritten ==
    (pc = "returned" /\ ImagesProcessed) =>
        LET images == extract_images(md_text)
            returned == extract_images(processed_md_text)
        IN  \A n \in 1..Len(images) :
                AlreadyUploaded(images[n]) =>
                    /\ \A k \in 1..Len(images_to_upload) :
                          images_to_upload[k].path # FirstCandidate(images[n].image_path)[1]
                    /\ Len(returned) = Len(images)
                    /\ returned[n].full_match =
                          Placeholder(images[n].alt_text,
                                      get_filename_from_path(images[n].image_path))

\* C13 witness: the document ![b](e/x) ![a](x) was processed with /w/d/x in
\* the ledger: /w/d/e/x alone is queued and both references are placeholders
C13_Witness ==
    /\ pc = "returned" /\ ImagesProcessed
    /\ md_text = <<"!", "[", "b", "]", "(", "e", "/", "x", ")", " ",
                   "!", "[", "a", "]", "(", "x", ")">>
    /\ DOMAIN uploaded_attachments = { <<"/", "w", "/", "d", "/", "x">> }
    /\ Len(images_to_upload) = 1
    /\ images_to_upload[1].path = <<"/", "w", "/", "d", "/", "e", "/", "x">>
    /\ processed_md_text =
          Placeholder(<<"b">>, <<"x">>) \o <<" ">> \o Placeholder(<<"a">>, <<"x">>)

\* C14: every entry of the upload list carries the first candidate location
\* of its reference that exists, in the order base directory (or the path
\* itself if absolute), workspace root, workspace root with the relative
\* base directory; without a workspace root the first candidate is the only
\* one; and every local reference with an existing candidate outside the
\* ledger has its entry.
C14_FirstExistingCandidateUsed ==
    (pc = "returned" /\ ImagesProcessed) =>
        LET images == extract_images(md_text)
        IN  /\ \A k \in 1..Len(images_to_upload) :
                  \E n \in 1..Len(images) :
                      /\ images[n].full_match = images_to_upload[k].original_ref
                      /\ FirstCandidate(images[n].image_path)
                            = << images_to_upload[k].path >>
            /\ \A n \in 1..Len(images) :
                  ( /\ is_local_path(images[n].image_path)
                    /\ FirstCandidate(images[n].image_path) # <<>>
                    /\ FirstCandidate(images[n].image_path)[1]
                          \notin DOMAIN uploaded_attachments )
                  => \E k \in 1..Len(images_to_upload) :
                        /\ images_to_upload[k].original_ref = images[n].full_match
                        /\ images_to_upload[k].path = FirstCandidate(images[n].image_path)[1]
            /\ "GITHUB_WORKSPACE" \notin DOMAIN environ =>
                  \A k \in 1..Len(images_to_upload) :
                      \E n \in 1..Len(images) :
                          images_to_upload[k].path
                              = resolve_image_path(base_path, images[n].image_path)

\* C14 witness: with base directory /w/d and workspace root /w, the document
\* ![a](x) ![](y) was processed: x exists at /w/d/x and at /w/x and is taken
\* from /w/d/x, y exists at /w/y alone and is taken from there
C14_Witness ==
    /\ pc = "returned" /\ ImagesProcessed
    /\ base_path = <<"/", "w", "/", "d">>
    /\ "GITHUB_WORKSPACE" \in DOMAIN environ
    /\ md_text = <<"!", "[", "a", "]", "(", "x", ")", " ", "!", "[", "]", "(", "y", ")">>
    /\ Len(images_to_upload) = 2
    /\ images_to_upload[1].path = <<"/", "w", "/", "d", "/", "x">>
    /\ images_to_upload[2].path = <<"/", "w", "/", "y">>

\* the items of a line: the texts between its spaces, from offset i on
RECURSIVE Items(_, _)
Items(line, i) ==
    LET j == FindFrom(line, <<" ">>, i)
    IN  IF j = -1 THEN << Slice(line, i, Len(line)) >>
        ELSE << Slice(line, i, j) >> \o Items(line, j + 1)

\* the placeholder tokens of the lines, as alt text and filename
PlaceholderTokens ==
    { [ alt |-> <<"a">>, filename |-> <<"x">> ],
      [ alt |-> <<>>, filename |-> <<"e", ".", "p", "n", "g">> ] }

\* the image tag of the claim for a token: the width attribute stands in it
\* when max_width is set, is not empty and is not 0
ExpectedTag(token) ==
    ImageTagOpen \o token.alt
    \o ( IF self_max_width # <<>> /\ self_max_width # << <<>> >>
            /\ self_max_width # << <<"0">> >>
         THEN ImageTagWidth \o self_max_width[1]
         ELSE <<>> )
    \o ImageTagFile \o token.filename \o ImageTagClose

ExpectedItem(item) ==
    IF \E token \in PlaceholderTokens : item = Placeholder(token.alt, token.filename)
    THEN ExpectedTag(CHOOSE token \in PlaceholderTokens :
                         item = Placeholder(token.alt, token.filename))
    ELSE item

ExpectedLine(line) ==
    LET items == Items(line, 0)
    IN  Join([ n \in 1..Len(items) |-> ExpectedItem(items[n]) ], <<" ">>)

\* C15: ImagePreprocessor.run returns as many lines as it was given; in every
\* line every placeholder token is the image tag with its alt text and its
\* filename, with the width attribute equal to max_width when max_width is
\* set, not empty and not 0, and without a width attribute otherwise; all
\* other text, and every line without a token, is as it was.
C15_PlaceholdersBecomeImageTags ==
    (Len(pre_calls) = 1 /\ self_max_width \in Widths /\ pre_calls[1] = arg_lines
     /\ \A n \in 1..Len(arg_lines) : arg_lines[n] \in LineTexts)
    => /\ Len(modified_lines) = Len(arg_lines)
       /\ \A n \in 1..Len(arg_lines) : modified_lines[n] = ExpectedLine(arg_lines[n])
       /\ \A n \in 1..Len(arg_lines) :
             (~ Occurs(arg_lines[n], AttachmentScheme)) => modified_lines[n] = arg_lines[n]
       /\ \A n \in 1..Len(arg_lines) :
             Occurs(modified_lines[n], ImageTagWidth)
             <=> ( /\ Occurs(arg_lines[n], AttachmentScheme)
                   /\ self_max_width \notin { <<>>, << <<>> >>, << <<"0">> >> } )

\* C15 witness: with max_width 600, the lines  ![a](confluence-attachment:x) t
\* and  t  were given: the first holds the tag with width 600, the second is t
C15_Witness ==
    /\ Len(pre_calls) = 1
    /\ self_max_width = << <<"6", "0", "0">> >>
    /\ arg_lines = << Placeholder(<<"a">>, <<"x">>) \o <<" ", "t">>, <<"t">> >>
    /\ modified_lines =
          << ImageTagOpen \o <<"a">> \o ImageTagWidth \o <<"6", "0", "0">> \o ImageTagFile
             \o <<"x">> \o ImageTagClose \o <<" ", "t">>,
             <<"t">> >>

\* C16: SectionLinkPreprocessor.run returns as many lines as it was given and
\* none of them holds ]( followed by two "#"; called again with the lines it
\* returned, it returns them as they are.
C16_SectionLinkRunIdempotent ==
    /\ Len(pre_calls) >= 1 =>
          /\ Len(modified_lines) = Len(pre_calls[1])
          /\ \A n \in 1..Len(modified_lines) :
                ~ Occurs(modified_lines[n], <<"]", "(", "#", "#">>)
    /\ Len(pre_calls) = 2 =>
          /\ pre_calls[2] = arg_lines
          /\ modified_lines = arg_lines

\* C16 witness: the lines  ](##a  and  [a](##b) [c](###d)  went through two
\* calls; both calls returned  ](#a  and  [a](#b) [c](#d)
C16_Witness ==
    /\ Len(pre_calls) = 2
    /\ pre_calls[1] = << <<"]", "(", "#", "#", "a">>,
                         <<"[", "a", "]", "(", "#", "#", "b", ")", " ",
                           "[", "c", "]", "(", "#", "#", "#", "d", ")">> >>
    /\ arg_lines = << <<"]", "(", "#", "a">>,
                      <<"[", "a", "]", "(", "#", "b", ")", " ",
                        "[", "c", "]", "(", "#", "d", ")">> >>
    /\ modified_lines = arg_lines

\* the file names of the attachments of the documents
AttachmentNames == { <<"x">>, <<"y">> }

\* the reference to an attachment in an image tag: <ri:attachment ri:filename="f" />
AttachmentReference(filename) ==
    SubSeq(ImageTagFile, 3, Len(ImageTagFile)) \o filename \o SubSeq(ImageTagClose, 1, 4)

\* an upload under the file name has failed: its response was not 200 or 201,
\* or the pass raised
UploadFailed(filename) ==
    \E k \in 1..Len(UploadSteps) :
        /\ UploadSteps[k].outcome \notin {"200", "201"}
        /\ k <= Len(images_to_upload)
        /\ images_to_upload[k].filename = filename

\* the page update was given to the client with a body that refers to the attachment
UpdateSentWith(filename) ==
    \E n \in 1..Len(sent) :
        /\ sent[n].command = "EditPage"
        /\ Occurs(sent[n].body, AttachmentReference(filename))

\* C17: no upload is attempted before the placeholders are in the markdown,
\* and they stay there; the markup converted from it refers to the attachment
\* of every queued image; a failed upload leaves the run without an error at
\* the loop, the splice or the update; and a run that has ended after the
\* upload of an image failed has sent the page update with a body that refers
\* to that attachment, unless the markers were not found in the page.
C17_FailedUploadKeepsImageReference ==
    /\ ImagesProcessed =>
          \A k \in 1..Len(images_to_upload) :
              Occurs(processed_md_text,
                     Placeholder(images_to_upload[k].alt_text, images_to_upload[k].filename))
    /\ (~ ImagesProcessed) => UploadSteps = <<>>
    /\ "convert" \in StepNames =>
          \A k \in 1..Len(images_to_upload) :
              Occurs(converted_html, AttachmentReference(images_to_upload[k].filename))
    /\ \A filename \in AttachmentNames :
          (UploadFailed(filename) /\ pc \in {"done", "aborted"})
          => (UpdateSentWith(filename) \/ error = "SubstringNotFoundError")
    /\ \A filename \in AttachmentNames :
          (UploadFailed(filename) /\ pc \notin {"done", "aborted"})
          => (error = "none" /\ pc \in {"upload", "splice", "update"})

\* C17 witness: the upload of x failed with status 500, and the page update
\* was sent with a body that refers to the attachment x
C17_Witness ==
    /\ pc = "done"
    /\ Len(UploadSteps) = 1
    /\ UploadSteps[1].outcome = "500"
    /\ images_to_upload[1].filename = <<"x">>
    /\ sent[Len(sent)].command = "EditPage"
    /\ Occurs(sent[Len(sent)].body, AttachmentReference(<<"x">>))
    /\ uploaded_attachments = EmptyLedger

\* no occurrence of one marker shares a character of the body with an
\* occurrence of the other
NoOverlap(body, start_marker, end_marker) ==
    \A i \in 0..Len(body), j \in 0..Len(body) :
        (MatchAt(body, start_marker, i) /\ MatchAt(body, end_marker, j))
        => (j >= i + Len(start_marker) \/ i >= j + Len(end_marker))

\* a run after the first stands behind its splice: remote_page.body is the
\* body the run before it produced and wrote
SplicedAgain == remote_page.version >= 2 /\ pc = "update"

\* the splice of a run after the first raised SubstringNotFoundError
SpliceAgainFailed ==
    remote_page.version >= 2 /\ pc = "aborted" /\ error = "SubstringNotFoundError"

\* the markup holds neither marker, and the markers do not overlap in the
\* body the run before produced
MarkupAndMarkersApart ==
    /\ ~ Occurs(converted_html, vars["insert_start_text"])
    /\ ~ Occurs(converted_html, vars["insert_end_text"])
    /\ NoOverlap(remote_page.body, vars["insert_start_text"], vars["insert_end_text"])

\* in the body the run before produced, the first end marker is the one the
\* splice kept: it stands right after the markup
EndMarkerFirstAfterMarkup ==
    FirstOffset(remote_page.body, vars["insert_end_text"])
        = FirstOffset(remote_page.body, vars["insert_start_text"])
          + Len(vars["insert_start_text"]) + Len(converted_html)

\* C18: when the converted markup holds neither marker and the markers do
\* not overlap in the page body, the splice of the same markup into the body
\* a successful splice produced succeeds and gives that body again.
C18_ResyncLeavesBodyUnchanged ==
    /\ (SplicedAgain /\ MarkupAndMarkersApart) => page_body = remote_page.body
    /\ SpliceAgainFailed => ~ MarkupAndMarkersApart

\* C18 as amended: when, besides, the first end marker of the produced body
\* is the one that stands right after the markup, the splice of the same
\* markup into that body succeeds and gives that body again.
C18_ResyncUnchangedWhenEndMarkerIsFirst ==
    /\ (SplicedAgain /\ MarkupAndMarkersApart /\ EndMarkerFirstAfterMarkup)
          => page_body = remote_page.body
    /\ SpliceAgainFailed => ~ (MarkupAndMarkersApart /\ EndMarkerFirstAfterMarkup)

\* C18 witness: the second run spliced h into the body mShEm the first run
\* had produced, and got mShEm again
C18_Witness ==
    /\ SplicedAgain
    /\ vars["insert_start_text"] = <<"S">> /\ vars["insert_end_text"] = <<"E">>
    /\ converted_html = <<"h">>
    /\ remote_page.body = <<"m", "S", "h", "E", "m">>
    /\ page_body = remote_page.body
====
